---- MODULE Spec2Model ----
(***************************************************************************)
(* A model of the tool-calling agent of src/tinyagent.py (the local row    *)
(* store read_csv / write_csv, the dispatcher process_tool_calls and       *)
(* run_agent) and of the budgeting connector of src/connectors/ynab.py     *)
(* (get_headers, the five connectors and their milliunit conversion).      *)
(*                                                                         *)
(* Three specifications share the variables:                               *)
(*   Spec      one user query at a time through run_agent;                 *)
(*   SpecCsv   direct calls of write_csv and read_csv;                     *)
(*   SpecYnab  calls of the budgeting connectors against an upstream API.  *)
(***************************************************************************)
EXTENDS Integers, Sequences, FiniteSets, TLC

VARIABLES
    pc,        \* position of run_agent: "idle", "agent", "dispatch", "done", "raised"
    response,  \* the chat completion returned by agent(msg)
    idx,       \* 1-based position of the for loop of process_tool_calls
    results,   \* the list `results` of process_tool_calls
    ret,       \* the value returned by process_tool_calls / run_agent
    exc,       \* the exception that left run_agent, or NoExc
    trips,     \* the blocking calls made for the current query, in order
    fs,        \* the files mem/<name>.csv
    written,   \* history: the rows passed to write_csv, per collection, in call order
    lastRead,  \* the outcome of the last direct read_csv call
    env,       \* os.environ["YNAB_TOKEN"]
    sent,      \* the HTTP requests issued by the budgeting connectors
    ledger,    \* upstream: the transaction amounts (milliunits) the API has stored
    reply      \* the outcome of the last budgeting connector call

vars == <<pc, response, idx, results, ret, exc, trips, fs, written, lastRead,
          env, sent, ledger, reply>>

agentVars == <<pc, response, idx, results, ret, exc, trips>>
csvVars   == <<fs, written, lastRead>>
ynabVars  == <<env, sent, ledger, reply>>

(***************************************************************************)
(* Python values.  Every value has the same three fields so that values of *)
(* different Python types can be compared.                                 *)
(***************************************************************************)
PyStr(s)   == [typ |-> "str",  txt |-> s,  items |-> <<>>]
PyInt(s)   == [typ |-> "int",  txt |-> s,  items |-> <<>>]
PyNone     == [typ |-> "None", txt |-> "", items |-> <<>>]
PyList(xs) == [typ |-> "list", txt |-> "", items |-> xs]

\* What csv.writer puts in a field: str(value), and the empty string for None.
FieldOf(v) == v.txt

\* An ordered dict is a sequence of <<key, value>> records; two dicts are
\* equal in Python when they hold the same pairs, whatever the order.
AsDict(row) == {row[i] : i \in DOMAIN row}

(***************************************************************************)
(* The local row store.  A file is a sequence of lines; a line is the      *)
(* sequence of its fields.                                                 *)
(***************************************************************************)
Names == {"notes", "todo"}

NoFile == [exists |-> FALSE, lines |-> <<>>]

\* csv.DictWriter(f, fieldnames=row.keys()).writeheader()
HeaderLine(row) == [i \in DOMAIN row |-> FieldOf(row[i].k)]

\* csv.DictWriter.writerow(row): the values in the order of row.keys()
DataLine(row) == [i \in DOMAIN row |-> FieldOf(row[i].v)]

\* Mutant of WriteLines: the header is written on every call.
WriteLinesAlwaysHeader(file, row) ==
    file.lines \o <<HeaderLine(row), DataLine(row)>>

\* The lines of mem/<name>.csv after write_csv: opened in append mode, the
\* header only when the file did not exist before the call.
WriteLines(file, row) ==
    file.lines \o (IF file.exists THEN <<>> ELSE <<HeaderLine(row)>>) \o <<DataLine(row)>>

WriteCsv(files, name, row) ==
    [files EXCEPT ![name] = [exists |-> TRUE, lines |-> WriteLines(files[name], row)]]

Min(a, b) == IF a < b THEN a ELSE b

\* One row of csv.DictReader: zip(fieldnames, row), the surplus fields under
\* the key None (restkey), the missing ones set to None (restval).
ReadRow(fieldnames, line) ==
    LET lf == Len(fieldnames)
        lr == Len(line)
        zipped == {[k |-> PyStr(fieldnames[i]), v |-> PyStr(line[i])] : i \in 1..Min(lf, lr)}
        rest   == IF lf < lr
                  THEN {[k |-> PyNone, v |-> PyList(SubSeq(line, lf + 1, lr))]}
                  ELSE {[k |-> PyStr(fieldnames[i]), v |-> PyNone] : i \in (lr + 1)..lf}
    IN  zipped \cup rest

\* list(csv.DictReader(f)): the first line is the header, blank lines are
\* skipped, every other line becomes a mapping.
ReadCsv(file) ==
    IF file.lines = <<>> THEN <<>>
    ELSE LET data == SelectSeq(Tail(file.lines), LAMBDA l : l # <<>>)
         IN  [i \in 1..Len(data) |-> ReadRow(file.lines[1], data[i])]

(***************************************************************************)
(* Rows handed to write_csv.  SampleRow has the keys of sample_data.       *)
(***************************************************************************)
Pair(key, value) == [k |-> PyStr(key), v |-> value]

SampleRow   == <<Pair("date", PyStr("d1")), Pair("note", PyStr("n1"))>>
SwappedRow  == <<Pair("note", PyStr("n2")), Pair("date", PyStr("d2"))>>
TitleRow    == <<Pair("title", PyStr("t"))>>
CountRow    == <<Pair("date", PyStr("d3")), Pair("note", PyInt("7"))>>
WideRow     == <<Pair("date", PyStr("d4")), Pair("note", PyStr("n4")), Pair("tag", PyStr("x"))>>
EmptyRow    == <<>>

Rows      == {SampleRow, SwappedRow, TitleRow, CountRow, WideRow, EmptyRow}
AgentRows == {SampleRow, TitleRow}

\* Bounds of the model.
MaxRows   == 2   \* write_csv calls per collection under SpecCsv
MaxWrites == 2   \* write_csv tool calls in all under Spec
MaxCalls  == 2   \* tool calls in one model response

RowCount(hist) == Len(hist["notes"]) + Len(hist["todo"])

(***************************************************************************)
(* Direct calls of the row store (SpecCsv).                                *)
(***************************************************************************)
NoRead == [status |-> "none", name |-> "", rows |-> <<>>]

\* write_csv(name, row), src/tinyagent.py 14-20
CallWriteCsv(name, row) ==
    /\ Len(written[name]) < MaxRows
    /\ fs' = WriteCsv(fs, name, row)
    /\ written' = [written EXCEPT ![name] = Append(@, row)]
    /\ lastRead' = NoRead
    /\ UNCHANGED <<agentVars, ynabVars>>

\* read_csv(name), src/tinyagent.py 11-12: open() raises when the file is absent
CallReadCsv(name) ==
    /\ lastRead' = IF fs[name].exists
                   THEN [status |-> "ok", name |-> name, rows |-> ReadCsv(fs[name])]
                   ELSE [status |-> "FileNotFoundError", name |-> name, rows |-> <<>>]
    /\ UNCHANGED <<fs, written, agentVars, ynabVars>>

(***************************************************************************)
(* The model's response and its tool calls.                                *)
(***************************************************************************)
\* tool_call.function.arguments: raw text.  `text` is what eval() makes of
\* it: "dict" (a mapping literal), "malformed" (no Python expression).
Malformed      == [text |-> "malformed", hasName |-> FALSE, name |-> "", hasRow |-> FALSE, row |-> <<>>]
NoArgs         == [text |-> "dict", hasName |-> FALSE, name |-> "", hasRow |-> FALSE, row |-> <<>>]
NameOnly(n)    == [text |-> "dict", hasName |-> TRUE, name |-> n, hasRow |-> FALSE, row |-> <<>>]
NameRow(n, r)  == [text |-> "dict", hasName |-> TRUE, name |-> n, hasRow |-> TRUE, row |-> r]

ToolCall(fn, a) == [name |-> fn, arguments |-> a]

Calls ==
    {ToolCall("read_csv", a) : a \in {Malformed, NoArgs} \cup {NameOnly(n) : n \in Names}}
    \cup {ToolCall("write_csv", a) :
            a \in {NameOnly("notes")} \cup {NameRow(n, r) : n \in Names, r \in AgentRows}}
    \cup {ToolCall("get_calendar_events", a) : a \in {NoArgs, Malformed}}
    \cup {ToolCall("get_budgets", a) : a \in {NoArgs, Malformed}}

Batches == UNION {[1..n -> Calls] : n \in 0..MaxCalls}

Contents == {"Hello", "Nothing to do"}

\* The shapes process_tool_calls tells apart (lines 96-103).
Response(shape, content, calls) == [shape |-> shape, content |-> content, calls |-> calls]

Responses ==
    {Response(s, c, <<>>) : s \in {"no_choices", "no_message", "no_tool_calls_attr", "tool_calls_none"},
                            c \in Contents}
    \cup {Response("tool_calls_list", c, b) : c \in {"Hello"}, b \in Batches}

NoResponse == Response("none", "", <<>>)

IsWrite(c) == c.name = "write_csv" /\ c.arguments.text = "dict"
                 /\ c.arguments.hasName /\ c.arguments.hasRow

WriteCount(calls) == Cardinality({i \in DOMAIN calls : IsWrite(calls[i])})

(***************************************************************************)
(* The tools advertised to the model, and the dispatcher's resolution.     *)
(***************************************************************************)
\* TOOLS_SPEC, src/tinyagent.py 33-84: the "name" of each entry, in order.
TOOLS_SPEC == <<"read_csv", "write_csv", "get_calendar_events">>

NoCallable == "<none>"

\* Mutant of Resolve: the branch of get_calendar_events is missing.
ResolveNoCalendar(function_name) ==
    IF function_name = "read_csv" THEN "read_csv"
    ELSE IF function_name = "write_csv" THEN "write_csv"
    ELSE NoCallable

\* The if/elif chain of process_tool_calls (lines 110-117): the callable a
\* name is dispatched to.
Resolve(function_name) ==
    IF function_name = "read_csv" THEN "read_csv"
    ELSE IF function_name = "write_csv" THEN "write_csv"
    ELSE IF function_name = "get_calendar_events" THEN "get_calendar_events"
    ELSE NoCallable

(***************************************************************************)
(* process_tool_calls, one loop iteration.                                 *)
(***************************************************************************)
NoExc == ""

Body(tag, rows, text, arg) == [tag |-> tag, rows |-> rows, text |-> text, arg |-> arg]

\* f"{function_name} result: {result}" (line 119)
Line(function_name, result) == [name |-> function_name, sep |-> " result: ", body |-> result]

ModelTrip  == [kind |-> "model", name |-> "gpt-4o-mini"]
ToolTrip(fn) == [kind |-> "tool", name |-> fn]

\* What lines 107-117 do with one tool call on the files `files`:
\*   raise    the exception that leaves the loop, or NoExc
\*   entered  the connector whose body was entered, or NoCallable
\*   result   the value bound to `result`
\*   files    the files afterwards
\*   wrote    whether write_csv appended a row
Outcome(raise, entered, result, files, wrote) ==
    [raise |-> raise, entered |-> entered, result |-> result, files |-> files, wrote |-> wrote]

NoBody == Body("", <<>>, "", "")

Dispatch(tool_call, files) ==
    LET function_name == tool_call.function_name
        a == tool_call.arguments
        callable == Resolve(function_name)
    IN  IF a.text # "dict"
        THEN \* eval(tool_call.function.arguments) raises (line 108)
             Outcome("SyntaxError", NoCallable, NoBody, files, FALSE)
        ELSE IF callable = "read_csv"
        THEN \* read_csv(**function_args): exactly the parameter `name`
             IF ~a.hasName \/ a.hasRow
             THEN Outcome("TypeError", NoCallable, NoBody, files, FALSE)
             ELSE IF ~files[a.name].exists
             THEN Outcome("FileNotFoundError", callable, NoBody, files, FALSE)
             ELSE Outcome(NoExc, callable, Body("rows", ReadCsv(files[a.name]), "", ""),
                          files, FALSE)
        ELSE IF callable = "write_csv"
        THEN \* write_csv(**function_args): the parameters `name` and `row`
             IF ~a.hasName \/ ~a.hasRow
             THEN Outcome("TypeError", NoCallable, NoBody, files, FALSE)
             ELSE Outcome(NoExc, callable, Body("None", <<>>, "", ""),
                          WriteCsv(files, a.name, a.row), TRUE)
        ELSE IF callable = "get_calendar_events"
        THEN Outcome(NoExc, callable, Body("events", <<>>, "", ""), files, FALSE)
        ELSE Outcome(NoExc, NoCallable,
                     Body("str", <<>>, "Unknown function: ", function_name), files, FALSE)

\* Mutant of AppendResult: the line of an unresolved name is dropped.
AppendResultSkipUnknown(lines, function_name, result) ==
    IF result.tag = "str" THEN lines ELSE Append(lines, Line(function_name, result))

\* results.append(f"{function_name} result: {result}") (line 119)
AppendResult(lines, function_name, result) ==
    Append(lines, Line(function_name, result))

(***************************************************************************)
(* run_agent (Spec).                                                       *)
(***************************************************************************)
NoRet == [kind |-> "none", content |-> "", lines |-> <<>>]
Text(content)  == [kind |-> "text", content |-> content, lines |-> <<>>]
\* "\n".join(results): no line for an empty list, that is the empty string
Joined(lines)  == [kind |-> "joined", content |-> "", lines |-> lines]

\* run_agent(user_input) is entered and agent(user_input) is called:
\* client.chat.completions.create(...) is in flight (lines 125, 87-92).
RunAgent ==
    /\ pc \in {"idle", "done", "raised"}
    /\ pc' = "agent"
    /\ response' = NoResponse
    /\ idx' = 0
    /\ results' = <<>>
    /\ ret' = NoRet
    /\ exc' = NoExc
    /\ trips' = <<ModelTrip>>
    /\ UNCHANGED <<csvVars, ynabVars>>

\* The chat endpoint fails: the exception leaves agent() and run_agent().
AgentRaises ==
    /\ pc = "agent"
    /\ pc' = "raised"
    /\ exc' = "APIError"
    /\ UNCHANGED <<response, idx, results, ret, trips, csvVars, ynabVars>>

\* agent() returns `r` and process_tool_calls(r) runs up to the loop
\* (lines 96-104).
ProcessToolCalls(r) ==
    /\ pc = "agent"
    /\ RowCount(written) + WriteCount(r.calls) <= MaxWrites
    /\ response' = r
    /\ idx' = 1
    /\ results' = <<>>
    /\ CASE r.shape = "no_choices" ->
              pc' = "done" /\ ret' = Text("No response received") /\ exc' = NoExc
         [] r.shape = "no_message" ->
              \* `return choice.message.content` on a choice without message
              pc' = "raised" /\ ret' = NoRet /\ exc' = "AttributeError"
         [] r.shape = "no_tool_calls_attr" ->
              pc' = "done" /\ ret' = Text(r.content) /\ exc' = NoExc
         [] r.shape = "tool_calls_none" ->
              \* `for tool_call in None`
              pc' = "raised" /\ ret' = NoRet /\ exc' = "TypeError"
         [] OTHER ->
              pc' = "dispatch" /\ ret' = NoRet /\ exc' = NoExc
    /\ UNCHANGED <<trips, csvVars, ynabVars>>

\* One iteration of `for tool_call in tool_calls` (lines 106-119).
DispatchStep ==
    /\ pc = "dispatch"
    /\ idx <= Len(response.calls)
    /\ LET tool_call == [function_name |-> response.calls[idx].name,
                         arguments |-> response.calls[idx].arguments]
           o == Dispatch(tool_call, fs)
       IN  /\ trips' = IF o.entered # NoCallable THEN Append(trips, ToolTrip(o.entered))
                       ELSE trips
           /\ fs' = o.files
           /\ written' = IF o.wrote
                         THEN [written EXCEPT ![tool_call.arguments.name] =
                                      Append(@, tool_call.arguments.row)]
                         ELSE written
           /\ IF o.raise # NoExc
              THEN /\ pc' = "raised"
                   /\ exc' = o.raise
                   /\ UNCHANGED <<idx, results>>
              ELSE /\ results' = AppendResult(results, tool_call.function_name, o.result)
                   /\ idx' = idx + 1
                   /\ UNCHANGED <<pc, exc>>
    /\ UNCHANGED <<response, ret, lastRead, ynabVars>>

\* return "\n".join(results) (line 121)
ReturnJoined ==
    /\ pc = "dispatch"
    /\ idx > Len(response.calls)
    /\ pc' = "done"
    /\ ret' = Joined(results)
    /\ UNCHANGED <<response, idx, results, exc, trips, csvVars, ynabVars>>

(***************************************************************************)
(* Python floats: IEEE-754 binary64.  A natural number too wide for one    *)
(* machine word of the checker is a little-endian sequence of limbs in     *)
(* base LimbBase, without leading zero limbs; zero is <<>>.                *)
(***************************************************************************)
LimbBits == 10
LimbBase == 1024
MantBits == 53      \* significand bits of a Python float
Milli    == 1000    \* milliunits per currency unit

RECURSIVE BigOfNat(_)
BigOfNat(n) == IF n = 0 THEN <<>> ELSE <<n % LimbBase>> \o BigOfNat(n \div LimbBase)

RECURSIVE BigToNat(_)
BigToNat(x) == IF x = <<>> THEN 0 ELSE Head(x) + LimbBase * BigToNat(Tail(x))

\* x * k + carry, for k <= LimbBase
RECURSIVE BigMulSmall(_, _, _)
BigMulSmall(x, k, carry) ==
    IF x = <<>> THEN BigOfNat(carry)
    ELSE LET t == Head(x) * k + carry
         IN  <<t % LimbBase>> \o BigMulSmall(Tail(x), k, t \div LimbBase)

\* Quotient and remainder of x by k, for 0 < k <= LimbBase
RECURSIVE BigDivMod(_, _)
BigDivMod(x, k) ==
    IF x = <<>> THEN [q |-> <<>>, r |-> 0]
    ELSE LET hi == BigDivMod(Tail(x), k)
             t  == hi.r * LimbBase + Head(x)
             d  == t \div k
         IN  [q |-> IF hi.q = <<>> /\ d = 0 THEN <<>> ELSE <<d>> \o hi.q,
              r |-> t % k]

RECURSIVE NatBits(_)
NatBits(n) == IF n = 0 THEN 0 ELSE 1 + NatBits(n \div 2)

BigBits(x) == IF x = <<>> THEN 0 ELSE LimbBits * (Len(x) - 1) + NatBits(x[Len(x)])

RECURSIVE Pow2(_)
Pow2(n) == IF n = 0 THEN 1 ELSE 2 * Pow2(n - 1)

\* floor(x / 2^n) and whether the dropped bits are below, at or above one half
\* (cmp = -1, 0, 1) of the last kept bit, with `sticky` set when a bit was
\* already dropped.
RECURSIVE BigShiftRight(_, _, _)
BigShiftRight(x, n, sticky) ==
    IF n = 0 THEN [q |-> x, half |-> FALSE, sticky |-> sticky]
    ELSE IF n = 1
    THEN LET dm == BigDivMod(x, 2)
         IN  [q |-> dm.q, half |-> dm.r = 1, sticky |-> sticky]
    ELSE LET step == IF n - 1 < LimbBits THEN n - 1 ELSE LimbBits
             dm   == BigDivMod(x, Pow2(step))
         IN  BigShiftRight(dm.q, n - step, sticky \/ dm.r # 0)

BigIsOdd(x) == x # <<>> /\ x[1] % 2 = 1

\* A binary64: (-1)^neg * mant * 2^exp with mant of MantBits bits, or zero.
Float(neg, mant, exp) == [neg |-> neg, mant |-> mant, exp |-> exp]

\* Round to nearest, ties to even, given the quotient q (of MantBits bits),
\* whether the remainder is above / at one half, and the exponent of q.
RoundNearestEven(neg, q, above, tie, exp) ==
    LET up == above \/ (tie /\ BigIsOdd(q))
        m  == IF up THEN BigMulSmall(q, 1, 1) ELSE q
    IN  IF BigBits(m) > MantBits
        THEN Float(neg, BigDivMod(m, 2).q, exp + 1)
        ELSE Float(neg, m, exp)

\* Smallest s with floor(x * 2^s / d) of MantBits bits, with that quotient.
RECURSIVE Normalise(_, _, _)
Normalise(x, d, s) ==
    LET dm == BigDivMod(x, d)
    IN  IF BigBits(dm.q) >= MantBits THEN [q |-> dm.q, r |-> dm.r, s |-> s]
        ELSE Normalise(BigMulSmall(x, 2, 0), d, s + 1)

\* The binary64 nearest to n / d: what Python makes of the literal of a
\* decimal amount, and of the true division `n / d` of two small integers.
FloatOfRatio(neg, n, d) ==
    IF n = 0 THEN Float(FALSE, <<>>, 0)
    ELSE LET nm == Normalise(BigOfNat(n), d, 0)
         IN  RoundNearestEven(neg, nm.q, 2 * nm.r > d, 2 * nm.r = d, 0 - nm.s)

\* f * k in binary64, for an integer 0 < k <= LimbBase
FloatTimes(f, k) ==
    IF f.mant = <<>> THEN f
    ELSE LET p  == BigMulSmall(f.mant, k, 0)
             t  == BigBits(p) - MantBits
             sh == BigShiftRight(p, t, FALSE)
         IN  IF t <= 0 THEN Float(f.neg, p, f.exp)
             ELSE RoundNearestEven(f.neg, sh.q, sh.half /\ sh.sticky, sh.half /\ ~sh.sticky,
                                   f.exp + t)

\* int(f): truncation toward zero
FloatToInt(f) ==
    IF f.mant = <<>> THEN 0
    ELSE LET mag == IF f.exp >= 0
                    THEN BigToNat(f.mant) * Pow2(f.exp)
                    ELSE BigToNat(BigShiftRight(f.mant, 0 - f.exp, FALSE).q)
         IN  IF f.neg THEN 0 - mag ELSE mag

(***************************************************************************)
(* The budgeting connector, src/connectors/ynab.py (SpecYnab).             *)
(***************************************************************************)
MaxRequests == 2   \* HTTP requests issued in one run of the model

\* A decimal amount with three places, as the caller writes it: sign and
\* thousandths.  12.34 is Amount(FALSE, 12340).
Amount(neg, thousandths) == [neg |-> neg, thousandths |-> thousandths]

Amounts == {Amount(FALSE, 0), Amount(FALSE, 500), Amount(FALSE, 1001),
            Amount(FALSE, 12340), Amount(TRUE, 2500), Amount(TRUE, 1001)}

\* The Python float of a decimal amount.
FloatOfAmount(a) == FloatOfRatio(a.neg, a.thousandths, Milli)

\* amount_milliunits = int(amount * 1000) (line 190)
EncodeMilliunits(a) == FloatToInt(FloatTimes(FloatOfAmount(a), Milli))

\* transaction["amount"] / 1000 (line 100)
DecodeMilliunits(m) == IF m < 0 THEN FloatOfRatio(TRUE, 0 - m, Milli)
                       ELSE FloatOfRatio(FALSE, m, Milli)

\* Upstream: the categories of the budget, in milliunits.
UpstreamCategories == <<[balance |-> 12340, budgeted |-> 20000, activity |-> -7660]>>

\* The conversions above, tabulated over the amounts of the model.
EncodeTable == [a \in Amounts |-> EncodeMilliunits(a)]
DecodeTable == [m \in {EncodeTable[a] : a \in Amounts}
                      \cup {UpstreamCategories[1].balance, UpstreamCategories[1].budgeted,
                            UpstreamCategories[1].activity}
                  |-> DecodeMilliunits(m)]

BASE_URL == "https://api.youneedabudget.com/v1"

Unset      == [set |-> FALSE, value |-> ""]
SetTo(tok) == [set |-> TRUE, value |-> tok]
Environments == {Unset, SetTo(""), SetTo("secret")}

NoHeaders == [Authorization |-> <<>>]

\* Mutant of get_headers: the token is not checked.
GetHeadersUnchecked(e) ==
    [raise |-> NoExc, headers |-> [Authorization |-> <<"Bearer ", e.value>>]]

\* get_headers() (lines 22-27): `if not token` holds for None and for ""
GetHeaders(e) ==
    IF ~e.set \/ e.value = ""
    THEN [raise |-> "ValueError", headers |-> NoHeaders]
    ELSE [raise |-> NoExc, headers |-> [Authorization |-> <<"Bearer ", e.value>>]]

NoReply == [fn |-> "", kind |-> "none", msg |-> "", amounts |-> <<>>]
Failure(fn, kind, msg) == [fn |-> fn, kind |-> kind, msg |-> msg, amounts |-> <<>>]
Success(fn, amounts)   == [fn |-> fn, kind |-> "ok", msg |-> "", amounts |-> amounts]

HttpRequest(method, url, headers, json) ==
    [method |-> method, url |-> url, headers |-> headers, json |-> json]

NoJson == [amount |-> 0, present |-> FALSE]

Statuses == {200, 401}

BudgetIds  == {"b1"}
AccountIds == {"a1"}
SinceDates == {"", "2025-05-02"}

\* requests.get / requests.post with headers=get_headers(), then
\* response.raise_for_status(): get_headers() is evaluated before the request
\* is made, so its ValueError leaves the connector with nothing sent.
Call(fn, method, url, json, status, amounts) ==
    LET h == GetHeaders(env)
    IN  /\ Len(sent) < MaxRequests
        /\ IF h.raise # NoExc
           THEN /\ reply' = Failure(fn, h.raise, "YNAB_TOKEN not found in environment variables")
                /\ UNCHANGED sent
           ELSE /\ sent' = Append(sent, HttpRequest(method, url, h.headers, json))
                /\ reply' = IF status >= 400 THEN Failure(fn, "HTTPError", "401 Client Error")
                            ELSE Success(fn, amounts)
        /\ UNCHANGED <<env, agentVars, csvVars>>

Sent(status) == GetHeaders(env).raise = NoExc /\ status < 400

\* os.environ["YNAB_TOKEN"] is set, emptied or removed between calls.
SetToken(e) ==
    /\ e # env
    /\ env' = e
    /\ reply' = NoReply
    /\ UNCHANGED <<sent, ledger, agentVars, csvVars>>

\* get_budgets() (lines 38-42)
GetBudgets(status) ==
    /\ Call("get_budgets", "GET", <<BASE_URL, "/budgets">>, NoJson, status, <<>>)
    /\ UNCHANGED ledger

\* get_accounts(budget_id) (lines 58-62)
GetAccounts(budget_id, status) ==
    /\ Call("get_accounts", "GET", <<BASE_URL, "/budgets/", budget_id, "/accounts">>,
            NoJson, status, <<>>)
    /\ UNCHANGED ledger

\* get_transactions(budget_id, account_id, since_date) (lines 86-102)
GetTransactions(budget_id, account_id, since_date, status) ==
    /\ Call("get_transactions", "GET",
            <<BASE_URL, "/budgets/", budget_id, "/accounts/", account_id, "/transactions">>
              \o (IF since_date # "" THEN <<"?since_date=", since_date>> ELSE <<>>),
            NoJson, status,
            [i \in DOMAIN ledger |-> DecodeTable[ledger[i].amount]])
    /\ UNCHANGED ledger

\* get_budget_summary(budget_id) (lines 118-139)
GetBudgetSummary(budget_id, status) ==
    /\ Call("get_budget_summary", "GET", <<BASE_URL, "/budgets/", budget_id>>, NoJson, status,
            <<DecodeTable[UpstreamCategories[1].balance],
              DecodeTable[UpstreamCategories[1].budgeted],
              DecodeTable[UpstreamCategories[1].activity]>>)
    /\ UNCHANGED ledger

\* create_transaction(budget_id, account_id, date, amount, payee_name)
\* (lines 179-216); upstream stores the transaction it accepts.
CreateTransaction(budget_id, account_id, amount, status) ==
    LET amount_milliunits == EncodeTable[amount]
    IN  /\ Call("create_transaction", "POST",
                <<BASE_URL, "/budgets/", budget_id, "/transactions">>,
                [amount |-> amount_milliunits, present |-> TRUE], status, <<>>)
        /\ ledger' = IF Sent(status)
                     THEN Append(ledger, [amount |-> amount_milliunits, asked |-> amount])
                     ELSE ledger

(***************************************************************************)
(* Specifications.                                                         *)
(***************************************************************************)
Init ==
    /\ pc = "idle"
    /\ response = NoResponse
    /\ idx = 0
    /\ results = <<>>
    /\ ret = NoRet
    /\ exc = NoExc
    /\ trips = <<>>
    /\ fs = [n \in Names |-> NoFile]
    /\ written = [n \in Names |-> <<>>]
    /\ lastRead = NoRead
    /\ env \in Environments
    /\ sent = <<>>
    /\ ledger = <<>>
    /\ reply = NoReply

Next ==
    \/ RunAgent
    \/ AgentRaises
    \/ \E r \in Responses : ProcessToolCalls(r)
    \/ DispatchStep
    \/ ReturnJoined

Spec == Init /\ [][Next]_vars

NextCsv ==
    \/ \E n \in Names, row \in Rows : CallWriteCsv(n, row)
    \/ \E n \in Names : CallReadCsv(n)

SpecCsv == Init /\ [][NextCsv]_vars

NextYnab ==
    \/ \E e \in Environments : SetToken(e)
    \/ \E s \in Statuses : GetBudgets(s)
    \/ \E b \in BudgetIds, s \in Statuses : GetAccounts(b, s)
    \/ \E b \in BudgetIds, a \in AccountIds, d \in SinceDates, s \in Statuses :
          GetTransactions(b, a, d, s)
    \/ \E b \in BudgetIds, s \in Statuses : GetBudgetSummary(b, s)
    \/ \E b \in BudgetIds, a \in AccountIds, m \in Amounts, s \in Statuses :
          CreateTransaction(b, a, m, s)

SpecYnab == Init /\ [][NextYnab]_vars

(***************************************************************************)
(* Properties of the dispatcher (Spec).                                    *)
(***************************************************************************)
Advertised == {TOOLS_SPEC[i] : i \in DOMAIN TOOLS_SPEC}

Returned == pc \in {"done", "raised"}

ToolTrips == SelectSeq(trips, LAMBDA t : t.kind = "tool")

\* C1: a failure in one tool call of a batch yields an error line for that
\* call only; process_tool_calls still returns, with one line per call.
C1_FailureIsolated ==
    (Returned /\ response.shape = "tool_calls_list" /\ response.calls # <<>>)
        => (pc = "done" /\ Len(ret.lines) = Len(response.calls))

\* C2: a response with zero tool calls (list absent, None or empty) makes
\* process_tool_calls return the model's text unchanged, with no tool invoked.
C2_NoToolCallsReturnsContent ==
    (Returned /\ (\/ response.shape \in {"no_tool_calls_attr", "tool_calls_none"}
                  \/ (response.shape = "tool_calls_list" /\ response.calls = <<>>)))
        => (pc = "done" /\ ret = Text(response.content) /\ ToolTrips = <<>>)

\* C3: a tool call with an unregistered name is reported as a line of the
\* form `Error: <tool not found>`, no connector is entered for it, nothing
\* is raised, and the loop goes on.
C3_UnknownToolIsErrorLine ==
    \A i \in DOMAIN response.calls :
        (/\ response.shape = "tool_calls_list"
         /\ response.calls[i].name \notin Advertised
         /\ pc \in {"dispatch", "done", "raised"}
         /\ idx >= i
         /\ (idx = i => pc = "raised"))
            => (/\ ~(pc = "raised" /\ idx = i)
                /\ i \in DOMAIN results
                /\ results[i].body.text = "Error: "
                /\ results[i].body.arg = "tool not found")

\* C4: when the model returned at least one tool call, the value returned
\* by process_tool_calls has exactly one line per call, in the order of the
\* calls, and line i starts with the name of call i.
C4_OneLinePerCallInOrder ==
    (pc = "done" /\ response.shape = "tool_calls_list" /\ response.calls # <<>>)
        => (/\ ret.kind = "joined"
            /\ Len(ret.lines) = Len(response.calls)
            /\ \A i \in DOMAIN ret.lines : ret.lines[i].name = response.calls[i].name)

C4_Witness ==
    /\ pc = "done"
    /\ response.shape = "tool_calls_list"
    /\ Len(response.calls) = 2
    /\ response.calls[1].name = "get_budgets"
    /\ response.calls[2].name = "read_csv"
    /\ Len(ret.lines) = 2

\* C7: one query makes exactly one model invocation, runs each of the N
\* tool calls exactly once, in order, each followed by its own summarization
\* call: 1 + N + N blocking round-trips.
C7_RoundTrips ==
    (pc = "done" /\ response.shape = "tool_calls_list")
        => LET N == Len(response.calls)
           IN  /\ Len(SelectSeq(trips, LAMBDA t : t.kind = "model")) = 1
               /\ Len(ToolTrips) = N
               /\ \A i \in DOMAIN ToolTrips : ToolTrips[i].name = response.calls[i].name
               /\ Len(SelectSeq(trips, LAMBDA t : t.kind = "summary")) = N
               /\ Len(trips) = 1 + N + N

\* What each advertised tool returns, by which a result tells the callable
\* that produced it.
ResultTag(fn) ==
    IF fn = "read_csv" THEN "rows" ELSE IF fn = "write_csv" THEN "None" ELSE "events"

\* C8: the names of TOOLS_SPEC are pairwise different; a call with an
\* advertised name is dispatched to the one callable of that name, and a
\* call with any other name is dispatched to no callable.
C8_AdvertisedIffResolved ==
    /\ \A i, j \in DOMAIN TOOLS_SPEC : i # j => TOOLS_SPEC[i] # TOOLS_SPEC[j]
    /\ \A i \in DOMAIN ToolTrips : ToolTrips[i].name \in Advertised
    /\ \A i \in DOMAIN results :
          LET fn == response.calls[i].name
          IN  IF fn \in Advertised
              THEN results[i].body.tag = ResultTag(fn)
              ELSE results[i].body.tag = "str"

C8_Witness ==
    /\ pc = "done"
    /\ Len(results) = 2
    /\ results[1].name = "get_calendar_events"
    /\ results[1].body.tag = "events"
    /\ results[2].name = "get_budgets"
    /\ results[2].body.tag = "str"
    /\ Len(ToolTrips) = 1

(***************************************************************************)
(* Properties of the row store (SpecCsv).                                  *)
(***************************************************************************)
\* A non-empty row whose values are all strings.
TextRow(row) == row # <<>> /\ \A i \in DOMAIN row : row[i].v.typ = "str"

\* C6: read_csv(name) after write_csv(name, row) returns a list holding a
\* mapping equal to the written row, the rows in the order they were written
\* (stated here for rows of string values only, whatever their keys).
C6_RoundTrip ==
    (lastRead.status = "ok" /\ \A i \in DOMAIN written[lastRead.name] :
                                  TextRow(written[lastRead.name][i]))
        => LET w == written[lastRead.name]
           IN  /\ \E i \in DOMAIN lastRead.rows : lastRead.rows[i] = AsDict(w[Len(w)])
               /\ Len(lastRead.rows) = Len(w)
               /\ \A i \in DOMAIN w : lastRead.rows[i] = AsDict(w[i])

\* C10: after any sequence of write_csv calls, each collection's file is
\* absent if nothing was written to it, and otherwise holds one header line,
\* the keys of the first row written to it, then one data line per write to
\* it, in call order; writes to other collections leave it alone.
C10_HeaderThenOneLinePerWrite ==
    \A n \in Names :
        IF written[n] = <<>>
        THEN fs[n] = NoFile
        ELSE /\ fs[n].exists
             /\ Len(fs[n].lines) = 1 + Len(written[n])
             /\ fs[n].lines[1] = HeaderLine(written[n][1])
             /\ \A i \in DOMAIN written[n] : fs[n].lines[i + 1] = DataLine(written[n][i])

C10_Witness ==
    /\ written["notes"] = <<SampleRow, TitleRow>>
    /\ written["todo"] = <<SwappedRow>>
    /\ fs["notes"].lines = <<<<"date", "note">>, <<"d1", "n1">>, <<"t">>>>
    /\ fs["todo"].lines = <<<<"note", "date">>, <<"n2", "d2">>>>

(***************************************************************************)
(* Properties of the budgeting connector (SpecYnab).                       *)
(***************************************************************************)
TokenMissing == ~env.set \/ env.value = ""

\* C5: with YNAB_TOKEN absent or empty every budgeting connector fails with
\* the configuration error, and no request is ever sent without an
\* Authorization bearer header.
C5_NoUnauthenticatedRequest ==
    /\ \A i \in DOMAIN sent :
          /\ Len(sent[i].headers.Authorization) = 2
          /\ sent[i].headers.Authorization[1] = "Bearer "
          /\ sent[i].headers.Authorization[2] # ""
    /\ (TokenMissing /\ reply.kind # "none")
          => (/\ reply.kind = "ValueError"
              /\ reply.msg = "YNAB_TOKEN not found in environment variables")

C5_Witness ==
    /\ TokenMissing
    /\ reply.fn = "create_transaction"
    /\ reply.kind = "ValueError"
    /\ Len(sent) = 1

AmountTable == [a \in Amounts |-> FloatOfAmount(a)]

\* C9: encoding a decimal amount to milliunits as create_transaction does
\* and decoding it as get_transactions does yields the original amount.
C9_CurrencyRoundTrip ==
    (reply.kind = "ok" /\ reply.fn = "get_transactions")
        => \A i \in DOMAIN ledger : reply.amounts[i] = AmountTable[ledger[i].asked]

====
